---- MODULE Spec2Model ----
(***************************************************************************)
(* State-machine model of videogames_utils.gui.glassbrain_widget:          *)
(* GlassBrainWidget, its background precomputation of one brain plot per   *)
(* TR (worker pool + futures polled on a Qt timer) and its read path       *)
(* update_position.                                                        *)
(*                                                                         *)
(* Time is an integer number of ticks, 6 000 000 ticks per second, so that *)
(* a frame (1/60 s), the TR (1.49 s) and onsets given to 10 microseconds   *)
(* are all whole numbers; the float quotient time_in_run / tr is the       *)
(* rational T / tr, its integer part is IntTrunc(T, tr) and the            *)
(* interpolation alpha is the remainder r / tr.                            *)
(***************************************************************************)
EXTENDS Integers, FiniteSets, Sequences, TLC

\* ------------------------------------------------------------------ bounds
\* Number of load_timeseries calls explored in one behaviour.
MaxLoads == 2
\* Worker processes of the pool (GlassBrainWidget.n_jobs, a start-up option).
n_jobs == 2

\* ------------------------------------------------------- program constants
fps == 60
max_per_cycle == 2
TicksPerSecond == 100000 * fps
TicksPerFrame == TicksPerSecond \div fps
\* self.tr = 1.49 seconds
tr == (149 * TicksPerSecond) \div 100
\* the "+ 2" interpolation buffer of _start_precompute
lookahead == 2

\* replay_duration = None
NoDuration == 0 - 1

Max(a, b) == IF a >= b THEN a ELSE b
Min(a, b) == IF a <= b THEN a ELSE b

\* Python int(n / d) for d > 0: truncation toward zero.
IntTrunc_round(n, d) == (2 * n + d) \div (2 * d)
IntTrunc(n, d) == IF n >= 0 THEN n \div d ELSE 0 - ((0 - n) \div d)

\* ------------------------------------------------------------------ inputs
\* Recordings offered to load_timeseries: onset_time and replay_duration in
\* ticks, len(timeseries_data) in volumes.
Seconds(s, tenmicros) == s * TicksPerSecond + tenmicros * (TicksPerSecond \div 100000)
Recordings ==
  { [onset |-> Seconds(10, 0),     duration |-> 90 * TicksPerFrame,  len |-> 10],
    [onset |-> Seconds(9, 68500),  duration |-> NoDuration,          len |-> 8],
    [onset |-> Seconds(8, 94745),  duration |-> 90 * TicksPerFrame,  len |-> 8],
    [onset |-> Seconds(20, 0),     duration |-> 90 * TicksPerFrame,  len |-> 10] }
\* Frame indices given to update_position.
Frames == {0, 60, 120}

\* --------------------------------------------------------------- artifacts
\* A brain image: the (recording, TR) pairs it was rendered from and one
\* pixel intensity. NoneImg is Python's None.
NoneImg == [src |-> {}, px |-> 0 - 1]

\* _compute_single_brain_plot(tr_index, timeseries_data[tr_index], ...) for
\* the recording loaded as generation g.
Render(g, i) == [src |-> {<<g, i>>}, px |-> (37 * i + 53 * g) % 101]

\* cv2.addWeighted(a, 1 - alpha, b, alpha, 0) with alpha = r / tr, rounded to
\* the nearest integer intensity.
Blend(a, b, r) ==
  [src |-> a.src \cup b.src,
   px  |-> (2 * ((tr - r) * a.px + r * b.px) + tr) \div (2 * tr)]

\* What brain_label shows: a text (kind "none", "loaded", "error",
\* "computing" with the TR in the message) or a pixmap of an image.
Text(kind, n) == [kind |-> kind, tr |-> n, img |-> NoneImg]
Pixmap(img) == [kind |-> "pixmap", tr |-> 0 - 1, img |-> img]

\* timeseries_data / atlas_data: None, or the array of generation g with
\* len volumes.
NoneData == [gen |-> 0, len |-> 0 - 1]

VARIABLES
  timeseries_data,       \* [gen, len] or NoneData (atlas_data is set with it)
  onset_time,            \* ticks
  replay_duration,       \* ticks or NoDuration
  brain_cache,           \* function: tr_index -> image
  current_tr,
  last_displayed_brain,  \* image or NoneImg
  start_tr, end_tr, total_trs,
  executor,              \* "None" or "pool"
  futures,               \* function: tr_index -> [gen, st]
  is_precomputing,
  poll_timer,            \* TRUE while the QTimer is active
  progress_bar,          \* [maximum, value, visible]
  display,               \* brain_label
  abandoned,             \* tasks still running in pools already shut down
  loads,                 \* number of load_timeseries calls so far
  submitted,             \* history: the tr_index of every task the last load submitted, in order
  failed,                \* history: indices whose task raised (since the last load)
  op,                    \* history: the last operation
  frame_idx,             \* history: argument of the last update_position
  removed                \* history: futures deleted by the last _poll_futures

vars == <<timeseries_data, onset_time, replay_duration, brain_cache, current_tr,
          last_displayed_brain, start_tr, end_tr, total_trs, executor, futures,
          is_precomputing, poll_timer, progress_bar, display, abandoned, loads,
          submitted, failed, op, frame_idx, removed>>

\* VideoPlayer and the frame_changed handler of ReplayVisualizerApp
VARIABLES
  frames,                   \* self.frames: sequence of decoded frames <<replay, i>>
  current_frame_idx,
  is_playing,               \* the playback QTimer is active exactly while is_playing
  _playback_start_frame,
  elapsed_ms,               \* elapsed_timer.elapsed() at the last advance_frame
  controls_enabled,         \* play / step / reset buttons and the slider
  slider_max,               \* frame_slider.maximum()
  _last_heavy_update_frame,
  light_frame,              \* frame last given to timeseries and events widgets
  heavy_frame,              \* frame last given to glassbrain and physio widgets
  downstream_duration,      \* replay_duration on_replay_selected computed, in frames
  partial,                  \* history: the last decode stopped on an exception
  emitted,                  \* history: the last operation emitted frame_changed
  timer_high,               \* history: highest frame the timer emitted in this playback
  playback_finished,        \* history: the last operation emitted the signal
  pop                       \* history: the last operation

playerVars == <<frames, current_frame_idx, is_playing, _playback_start_frame,
                elapsed_ms, controls_enabled, slider_max, _last_heavy_update_frame,
                light_frame, heavy_frame, downstream_duration, partial, emitted,
                timer_high, playback_finished,
                pop>>

\* get_variables_from_replay and get_variables_from_replay_streaming (replay.py)
VARIABLES
  call,          \* the arguments and the movie of the call in progress
  rpc,           \* "idle", "running", "returned" or "raised"
  replay_info,   \* the list of annotation dicts collected so far
  replay_keys,   \* the list of key vectors collected so far
  states_idx,    \* frame_idx of the streaming loop
  hf,            \* the file at states_output_path
  result         \* what the call returned, NoResult while it has not

replayVars == <<call, rpc, replay_info, replay_keys, states_idx, hf, result>>

\* EventsWidget (events_widget.py) and load_annotated_events (utils.py)
VARIABLES
  events_df,       \* self.events_df: sequence of rows, <<>> when empty
  active_events,   \* self.active_events
  returned_events, \* history: what the last load_annotated_events returned
  events_file,     \* history: the table of the file last read
  bk2_filename,    \* history: the filename last asked for
  eframe,          \* history: argument of the last update_position
  eop              \* history: the last operation

eventsVars == <<events_df, active_events, returned_events, events_file,
                bk2_filename, eframe, eop>>

\* FileBrowser.load_replays (file_browser.py) and the producer replay_bk2
VARIABLES
  replays,        \* self.replays: list of replay info dicts
  dataset,        \* history: the dataset load_replays read
  selected,       \* history: index in replays of the replay last decoded, 0 for none
  n_frames,       \* history: frames replay_bk2 yielded for it, -1 for none
  movie_steps,    \* history: steps of its movie, -1 for none
  bop             \* history: the last operation

browserVars == <<replays, dataset, selected, n_frames, movie_steps, bop>>

\* PhysioWidget (physio_widget.py), with one plotted channel
VARIABLES
  physio_data,        \* len(self.physio_data), NoPhysio for None
  events_data,        \* self.events_data: sequence of event onsets, NoPhysioEvents for None
  physio_onset_time,  \* self.onset_time of the physio widget
  show_events,
  current_frame,
  curve,              \* the slice [start, end) the curve was last given, NoCurve when empty
  event_scatter,      \* the markers on the plot: set of [onset, x]
  phop                \* history: the last operation

physioVars == <<physio_data, events_data, physio_onset_time, show_events,
                current_frame, curve, event_scatter, phop>>

\* the variables of the other components, which GlassBrainWidget does not touch
notGlass == <<playerVars, replayVars, eventsVars, browserVars, physioVars>>
\* the variables VideoPlayer and on_frame_changed do not touch
notPlayer == <<vars, replayVars, eventsVars, browserVars, physioVars>>
\* the variables the replay functions do not touch
notReplay == <<vars, playerVars, eventsVars, browserVars, physioVars>>
\* the variables EventsWidget does not touch
notEvents == <<vars, playerVars, replayVars, browserVars, physioVars>>
\* the variables FileBrowser does not touch
notBrowser == <<vars, playerVars, replayVars, eventsVars, physioVars>>
\* the variables PhysioWidget does not touch
notPhysio == <<vars, playerVars, replayVars, eventsVars, browserVars>>
allVars == <<vars, playerVars, replayVars, eventsVars, browserVars, physioVars>>

EmptyMap == [i \in {} |-> NoneImg]
NoFutures == [i \in {} |-> [gen |-> 0, st |-> "PENDING"]]

\* a column of the variables dict: a per-frame list, or a metadata value
List(v) == [kind |-> "list", v |-> v]
Meta == [kind |-> "meta", v |-> <<>>]
NoTable == [k \in {} |-> Meta]
NoResult == [returned |-> FALSE, variables |-> NoTable, n_frames |-> 0]
NoFile == [exists |-> FALSE, open |-> FALSE, dataset |-> FALSE, rows |-> <<>>]
NoFault == [kind |-> "none", at |-> 0]
NoCall == [steps |-> <<>>, skip |-> FALSE, streaming |-> FALSE, fault |-> NoFault]

\* self.physio_data = None, self.events_data = None, a curve without data
NoPhysio == 0 - 1
NoPhysioEvents == <<0 - 1>>
NoCurve == [start |-> 0, end |-> 0]

\* self.current_dataset = None
NoDataset == [tables |-> <<>>, unreadable |-> {}, resolves |-> {}, bk2_files |-> {}]

\* ReplayVisualizerApp.__init__ builds the widgets
Init ==
  \* GlassBrainWidget.__init__
  /\ timeseries_data = NoneData
  /\ onset_time = 0
  /\ replay_duration = NoDuration
  /\ brain_cache = EmptyMap
  /\ current_tr = 0 - 1
  /\ last_displayed_brain = NoneImg
  /\ start_tr = 0 /\ end_tr = 0 /\ total_trs = 0
  /\ executor = "None"
  /\ futures = NoFutures
  /\ is_precomputing = FALSE
  /\ poll_timer = FALSE
  /\ progress_bar = [maximum |-> 100, value |-> 0 - 1, visible |-> FALSE]
  /\ display = Text("none", 0 - 1)
  /\ abandoned = {}
  /\ loads = 0
  /\ submitted = <<>>
  /\ failed = {}
  /\ op = "init"
  /\ frame_idx = 0 - 1
  /\ removed = {}
  \* VideoPlayer.__init__ and ReplayVisualizerApp.__init__
  /\ frames = <<>>
  /\ current_frame_idx = 0
  /\ is_playing = FALSE
  /\ _playback_start_frame = 0
  /\ elapsed_ms = 0
  /\ controls_enabled = FALSE
  /\ slider_max = 0
  /\ _last_heavy_update_frame = 0 - 1
  /\ light_frame = 0 - 1
  /\ heavy_frame = 0 - 1
  /\ downstream_duration = 0 - 1
  /\ partial = FALSE
  /\ emitted = FALSE
  /\ timer_high = 0 - 1
  /\ playback_finished = FALSE
  /\ pop = "init"
  \* no replay function has been called, no file at states_output_path
  /\ call = NoCall
  /\ rpc = "idle"
  /\ replay_info = <<>>
  /\ replay_keys = <<>>
  /\ states_idx = 0
  /\ hf = NoFile
  /\ result = NoResult
  \* EventsWidget.__init__
  /\ events_df = <<>>
  /\ active_events = <<>>
  /\ returned_events = <<>>
  /\ events_file = <<>>
  /\ bk2_filename = <<>>
  /\ eframe = 0 - 1
  /\ eop = "init"
  \* FileBrowser.__init__: no dataset
  /\ replays = <<>>
  /\ dataset = NoDataset
  /\ selected = 0
  /\ n_frames = 0 - 1
  /\ movie_steps = 0 - 1
  /\ bop = "init"
  \* PhysioWidget.__init__
  /\ physio_data = NoPhysio
  /\ events_data = NoPhysioEvents
  /\ physio_onset_time = 0
  /\ show_events = TRUE
  /\ current_frame = 0
  /\ curve = NoCurve
  /\ event_scatter = {}
  /\ phop = "init"

\* ------------------------------------------------------- _stop_precompute
\* self.futures after _stop_precompute: cleared when an executor exists.
StopFutures_keep(ex, futs) == futs
StopFutures(ex, futs) == IF ex # "None" THEN NoFutures ELSE futs

\* Tasks a worker is executing when the pool is shut down with wait=False:
\* they cannot be cancelled and go on running, unobserved.
StillRunning(ex, futs) ==
  IF ex # "None"
  THEN {<<futs[i].gen, i>> : i \in {j \in DOMAIN futs : futs[j].st = "RUNNING"}}
  ELSE {}

\* ------------------------------------------------------ _start_precompute
\* start_tr = max(0, int(onset_time / tr))
StartTr(onset) == Max(0, IntTrunc(onset, tr))

\* end_tr = min(int((onset_time + replay_duration) / tr) + 2, len), or len
\* when replay_duration is None
EndTr_nobuffer(onset, duration, len) ==
  Min(IF duration # NoDuration THEN IntTrunc(onset + duration, tr) ELSE len, len)
EndTr(onset, duration, len) ==
  Min(IF duration # NoDuration THEN IntTrunc(onset + duration, tr) + lookahead ELSE len,
      len)

\* for tr_idx in range(start_tr, end_tr): executor.submit(...), in order
RECURSIVE SubmitLoop_twice(_, _)
SubmitLoop_twice(s, e) == IF s >= e THEN <<>> ELSE <<s, s>> \o SubmitLoop_twice(s + 1, e)
RECURSIVE SubmitLoop(_, _)
SubmitLoop(s, e) == IF s >= e THEN <<>> ELSE <<s>> \o SubmitLoop(s + 1, e)

\* self.futures[tr_idx] = future, for every submitted task
FuturesOf(g, subs) ==
  [i \in {subs[k] : k \in DOMAIN subs} |-> [gen |-> g, st |-> "PENDING"]]

\* self.brain_cache.clear() in load_timeseries and clear
\* self.last_displayed_brain = None
ResetLast_keep(img) == img
ResetLast(img) == NoneImg
ClearedCache_keep(cache) == cache
ClearedCache(cache) == EmptyMap

\* -------------------------------------------------------- load_timeseries
\* ok = FALSE: the HDF5 key or a file is missing, the except branch runs.
load_timeseries(r, ok) ==
  /\ UNCHANGED notGlass
  /\ loads < MaxLoads
  /\ loads' = loads + 1
  /\ abandoned' = abandoned \cup StillRunning(executor, futures)
  /\ brain_cache' = ClearedCache(brain_cache)
  /\ current_tr' = 0 - 1
  /\ last_displayed_brain' = ResetLast(last_displayed_brain)
  /\ onset_time' = r.onset
  /\ replay_duration' = r.duration
  /\ failed' = {}
  /\ op' = "load_timeseries"
  /\ frame_idx' = 0 - 1
  /\ removed' = {}
  /\ IF ok
     THEN LET s == StartTr(r.onset)
              e == EndTr(r.onset, r.duration, r.len)
              subs == SubmitLoop(s, e)
          IN /\ timeseries_data' = [gen |-> loads + 1, len |-> r.len]
             /\ display' = Text("loaded", 0 - 1)
             /\ start_tr' = s /\ end_tr' = e /\ total_trs' = e - s
             /\ progress_bar' = [maximum |-> e - s, value |-> 0, visible |-> TRUE]
             /\ executor' = "pool"
             /\ submitted' = subs
             /\ futures' = FuturesOf(loads + 1, subs)
             /\ is_precomputing' = TRUE
             /\ poll_timer' = TRUE
     ELSE /\ timeseries_data' = NoneData
          /\ display' = Text("error", 0 - 1)
          /\ UNCHANGED <<start_tr, end_tr, total_trs>>
          /\ progress_bar' = [progress_bar EXCEPT !.visible = FALSE]
          /\ executor' = "None"
          /\ submitted' = <<>>
          /\ futures' = StopFutures(executor, futures)
          /\ is_precomputing' = FALSE
          /\ poll_timer' = FALSE

\* ------------------------------------------------------------------ clear
clear ==
  /\ UNCHANGED notGlass
  /\ abandoned' = abandoned \cup StillRunning(executor, futures)
  /\ futures' = StopFutures(executor, futures)
  /\ executor' = "None"
  /\ poll_timer' = FALSE
  /\ is_precomputing' = FALSE
  /\ progress_bar' = [progress_bar EXCEPT !.visible = FALSE]
  /\ timeseries_data' = NoneData
  /\ brain_cache' = ClearedCache(brain_cache)
  /\ display' = Text("none", 0 - 1)
  /\ op' = "clear"
  /\ frame_idx' = 0 - 1
  /\ removed' = {}
  /\ UNCHANGED <<onset_time, replay_duration, current_tr, last_displayed_brain,
                 start_tr, end_tr, total_trs, loads, submitted, failed>>

\* ------------------------------------------------------------ worker pool
Running(futs) == {i \in DOMAIN futs : futs[i].st = "RUNNING"}
Pending(futs) == {i \in DOMAIN futs : futs[i].st = "PENDING"}

\* A free worker of the ProcessPoolExecutor takes the oldest queued task.
task_start ==
  /\ UNCHANGED notGlass
  /\ executor = "pool"
  /\ Pending(futures) # {}
  /\ Cardinality(Running(futures)) < n_jobs
  /\ LET i == CHOOSE j \in Pending(futures) : \A k \in Pending(futures) : j <= k
     IN futures' = [futures EXCEPT ![i].st = "RUNNING"]
  /\ op' = "worker"
  /\ frame_idx' = 0 - 1
  /\ removed' = {}
  /\ UNCHANGED <<timeseries_data, onset_time, replay_duration, brain_cache, current_tr,
                 last_displayed_brain, start_tr, end_tr, total_trs, executor,
                 is_precomputing, poll_timer, progress_bar, display, abandoned, loads,
                 submitted, failed>>

\* _compute_single_brain_plot returns (ok) or raises (~ok) in the worker.
task_finish(i, ok) ==
  /\ UNCHANGED notGlass
  /\ i \in Running(futures)
  /\ futures' = [futures EXCEPT ![i].st = IF ok THEN "OK" ELSE "ERR"]
  /\ op' = "worker"
  /\ frame_idx' = 0 - 1
  /\ removed' = {}
  /\ UNCHANGED <<timeseries_data, onset_time, replay_duration, brain_cache, current_tr,
                 last_displayed_brain, start_tr, end_tr, total_trs, executor,
                 is_precomputing, poll_timer, progress_bar, display, abandoned, loads,
                 submitted, failed>>

\* A task of a pool that was shut down ends; nobody holds its future.
abandoned_finish(t) ==
  /\ UNCHANGED notGlass
  /\ t \in abandoned
  /\ abandoned' = abandoned \ {t}
  /\ op' = "worker"
  /\ frame_idx' = 0 - 1
  /\ removed' = {}
  /\ UNCHANGED <<timeseries_data, onset_time, replay_duration, brain_cache, current_tr,
                 last_displayed_brain, start_tr, end_tr, total_trs, executor, futures,
                 is_precomputing, poll_timer, progress_bar, display, loads,
                 submitted, failed>>

\* ---------------------------------------------------------- _poll_futures
DoneOk(futs) == {i \in DOMAIN futs : futs[i].st = "OK"}
DoneErr(futs) == {i \in DOMAIN futs : futs[i].st = "ERR"}

\* The futures the loop of _poll_futures reaches: the dict is walked in
\* insertion (ascending tr_idx) order and the walk breaks right after the
\* max_per_cycle-th future whose result() returned; a future whose result()
\* raised is appended to `completed` without counting.
Visited(futs) ==
  IF Cardinality(DoneOk(futs)) >= max_per_cycle
  THEN LET last == CHOOSE k \in DoneOk(futs) :
                     Cardinality({j \in DoneOk(futs) : j <= k}) = max_per_cycle
       IN {i \in DOMAIN futs : i <= last}
  ELSE DOMAIN futs

\* completed: the futures deleted from self.futures by this poll
Completed(futs) == Visited(futs) \cap (DoneOk(futs) \cup DoneErr(futs))

\* the results stored into brain_cache by this poll
Stored_err(futs) == Visited(futs) \cap (DoneOk(futs) \cup DoneErr(futs))
Stored(futs) == Visited(futs) \cap DoneOk(futs)

\* cached_count = len(self.brain_cache); progress_bar.setValue(cached_count)
ProgressValue_done(cache, futs, total) == total - Cardinality(DOMAIN futs)
ProgressValue(cache, futs, total) == Cardinality(DOMAIN cache)

_poll_futures ==
  /\ UNCHANGED notGlass
  /\ poll_timer
  /\ op' = "_poll_futures"
  /\ frame_idx' = 0 - 1
  /\ IF DOMAIN futures = {}
     THEN /\ poll_timer' = FALSE
          /\ removed' = {}
          /\ UNCHANGED <<brain_cache, futures, progress_bar, is_precomputing,
                         executor, failed>>
     ELSE LET done == Completed(futures)
              new == Stored(futures)
              cache2 == [i \in DOMAIN brain_cache \cup new |->
                           IF i \in new THEN Render(futures[i].gen, i)
                           ELSE brain_cache[i]]
              futs2 == [i \in DOMAIN futures \ done |-> futures[i]]
              finished == DOMAIN futs2 = {}
          IN /\ brain_cache' = cache2
             /\ futures' = futs2
             /\ removed' = done
             /\ failed' = failed \cup (done \cap DoneErr(futures))
             /\ progress_bar' =
                  [progress_bar EXCEPT
                     !.value = ProgressValue(cache2, futs2, total_trs),
                     !.visible = IF finished THEN FALSE ELSE @]
             /\ poll_timer' = ~finished
             /\ is_precomputing' = IF finished THEN FALSE ELSE is_precomputing
             /\ executor' = IF finished THEN "None" ELSE executor
  /\ UNCHANGED <<timeseries_data, onset_time, replay_duration, current_tr,
                 last_displayed_brain, start_tr, end_tr, total_trs, display,
                 abandoned, loads, submitted>>

\* -------------------------------------------------------- update_position
\* time_in_run = frame_idx / fps + onset_time, in ticks
TimeInRun(f, onset) == f * TicksPerFrame + onset

\* current_tr = int(time_in_run / tr)
CurrentTr(t) == IntTrunc(t, tr)

\* alpha = tr_index_float - current_tr, as the numerator r of r / tr
Alpha(t) == t - CurrentTr(t) * tr

\* alpha > 0.01 and next_tr < len(timeseries_data) and next_tr in brain_cache
ShouldBlend_always(r, nx, len, cache) == nx \in DOMAIN cache
ShouldBlend(r, nx, len, cache) == 100 * r > tr /\ nx < len /\ nx \in DOMAIN cache

\* The branch "current_tr not in self.brain_cache": the label keeps the last
\* displayed brain, or says "Computing TR n..." when there is none.
Miss_reset(s, c) ==
  [s EXCEPT !.cur = c, !.disp = Text("computing", c), !.last = NoneImg]
Miss_forget(s, c) ==
  IF s.last = NoneImg
  THEN [s EXCEPT !.cur = c, !.disp = Text("computing", c)]
  ELSE [s EXCEPT !.cur = c, !.disp = Pixmap(s.last), !.last = NoneImg]
Miss(s, c) ==
  IF s.last = NoneImg
  THEN [s EXCEPT !.cur = c, !.disp = Text("computing", c)]
  ELSE [s EXCEPT !.cur = c, !.disp = Pixmap(s.last)]

\* The branch "current_tr in self.brain_cache"
Hit(s, c, r) ==
  LET img == IF ShouldBlend(r, c + 1, s.len, s.cache)
             THEN Blend(s.cache[c], s.cache[c + 1], r)
             ELSE s.cache[c]
  IN [s EXCEPT !.cur = c, !.last = img, !.disp = Pixmap(img)]

\* update_position without the check "current_tr >= len(timeseries_data)"
UpdatePosition_nobound(s, f) ==
  IF s.len < 0 THEN s
  ELSE LET t == TimeInRun(f, s.onset)
           c == CurrentTr(t)
       IN IF c \notin DOMAIN s.cache THEN Miss(s, c)
          ELSE Hit(s, c, Alpha(t))

\* update_position as a function of the fields it reads and writes
UpdatePosition(s, f) ==
  IF s.len < 0 THEN s
  ELSE LET t == TimeInRun(f, s.onset)
           c == CurrentTr(t)
       IN IF c >= s.len THEN s
          ELSE IF c \notin DOMAIN s.cache THEN Miss(s, c)
          ELSE Hit(s, c, Alpha(t))

\* the fields update_position reads and writes
ReadState ==
  [len |-> timeseries_data.len, onset |-> onset_time, cache |-> brain_cache,
   last |-> last_displayed_brain, cur |-> current_tr, disp |-> display]

update_position(f) ==
  /\ UNCHANGED notGlass
  /\ LET s == UpdatePosition(ReadState, f)
     IN /\ current_tr' = s.cur
        /\ last_displayed_brain' = s.last
        /\ display' = s.disp
  /\ op' = "update_position"
  /\ frame_idx' = f
  /\ removed' = {}
  /\ UNCHANGED <<timeseries_data, onset_time, replay_duration, brain_cache, start_tr,
                 end_tr, total_trs, executor, futures, is_precomputing, poll_timer,
                 progress_bar, abandoned, loads, submitted, failed>>

\* ------------------------------------------------------------------- spec
Next ==
  \/ \E r \in Recordings, ok \in BOOLEAN : load_timeseries(r, ok)
  \/ clear
  \/ task_start
  \/ \E i \in DOMAIN futures, ok \in BOOLEAN : task_finish(i, ok)
  \/ \E t \in abandoned : abandoned_finish(t)
  \/ _poll_futures
  \/ \E f \in Frames : update_position(f)

Spec == Init /\ [][Next]_allVars

\* ----------------------------------------------------------------- claims
Loaded == timeseries_data # NoneData
Range == start_tr .. (end_tr - 1)
Count(seq, i) == Cardinality({k \in DOMAIN seq : seq[k] = i})
\* floor(n / d) and the remainder, by the division of the integers
Floor(n, d) == n \div d
Frac(n, d) == n % d

\* C1: after load_timeseries, whatever old tasks were pending, running or
\* finished, every entry of brain_cache was rendered by a task of the
\* recording just loaded, for an index of its range; and the load step itself
\* leaves every old task that was running still running (it does not wait).
C1_NewCacheOnly ==
  /\ [](\A i \in DOMAIN brain_cache :
          brain_cache[i].src = {<<loads, i>>} /\ i \in Range)
  /\ [][op' = "load_timeseries" =>
          /\ abandoned \cup StillRunning(executor, futures) \subseteq abandoned'
          /\ brain_cache' = EmptyMap
          /\ \A i \in DOMAIN futures' : futures'[i].gen = loads']_vars

\* C1 witness: a second recording is loaded while a task of the first is
\* still running, and the new cache already has entries.
C1_Witness ==
  /\ loads = 2
  /\ \E t \in abandoned : t[1] = 1
  /\ DOMAIN brain_cache # {}

\* C2: clear (and the stop step of load_timeseries) can be taken in every
\* state and does not wait: the tasks in flight stay in flight; after clear or
\* a failed load no future is pending, the executor is released, the poll
\* timer is stopped, is_precomputing is false and the cache is empty; after a
\* successful load only tasks of the new recording are pending.
C2_CancelAnywhere ==
  /\ [](ENABLED clear)
  /\ [](loads < MaxLoads => ENABLED (\E r \in Recordings : load_timeseries(r, TRUE)))
  /\ [][op' = "clear" \/ (op' = "load_timeseries" /\ ~Loaded') =>
          /\ DOMAIN futures' = {}
          /\ executor' = "None"
          /\ ~poll_timer'
          /\ ~is_precomputing'
          /\ brain_cache' = EmptyMap
          /\ abandoned \cup StillRunning(executor, futures) \subseteq abandoned']_vars
  /\ [][op' = "load_timeseries" /\ Loaded' =>
          /\ \A i \in DOMAIN futures' :
               futures'[i] = [gen |-> loads', st |-> "PENDING"]
          /\ brain_cache' = EmptyMap]_vars

\* C2 witness: clear was called while a task of the current recording was
\* running; the task is still running afterwards.
C2_Witness ==
  /\ op = "clear"
  /\ \E t \in abandoned : t[1] = loads
  /\ DOMAIN futures = {}
  /\ executor = "None"

\* What a lookup at frame f shows, from the present state.
Shown(f) == UpdatePosition(ReadState, f).disp

\* img is the per-pixel blend (1 - r/tr) * a + (r/tr) * b of the images a
\* and b, to the nearest intensity.
IsLinearBlend(img, a, b, r) ==
  /\ img.src = a.src \cup b.src
  /\ 2 * (tr * img.px - ((tr - r) * a.px + r * b.px)) <= tr
  /\ 2 * (((tr - r) * a.px + r * b.px) - tr * img.px) <= tr

\* C3: with c = floor(time_in_run / tr) < len and a = the fractional part, a
\* lookup shows the linear blend of cache[c] and cache[c+1] when c is cached,
\* a > 0.01 and c+1 is cached; cache[c] itself when c is cached otherwise; the
\* last displayed image, unblended, when c is not cached and one exists; and
\* "Computing TR c..." (not yet available) when there is none. Beyond the
\* last volume the label is left as it is: the last displayed image, or no
\* image at all. With 6 and 7 cached, a = 0.5 gives the 50/50 blend and
\* a = 0.005 gives image 6 unchanged.
C3_ReadPath ==
  \A f \in Frames :
    Loaded =>
      LET t == f * TicksPerFrame + onset_time
          c == Floor(t, tr)
          r == Frac(t, tr)
          d == Shown(f)
      IN /\ (c < timeseries_data.len /\ c \in DOMAIN brain_cache
               /\ 100 * r > tr /\ c + 1 \in DOMAIN brain_cache) =>
              /\ d.kind = "pixmap"
              /\ IsLinearBlend(d.img, brain_cache[c], brain_cache[c + 1], r)
              /\ (2 * r = tr =>
                    d.img.px \in { (brain_cache[c].px + brain_cache[c + 1].px) \div 2,
                                   (brain_cache[c].px + brain_cache[c + 1].px + 1) \div 2 })
         /\ (c < timeseries_data.len /\ c \in DOMAIN brain_cache
               /\ ~(100 * r > tr /\ c + 1 \in DOMAIN brain_cache)) =>
              d = Pixmap(brain_cache[c])
         /\ (c \notin DOMAIN brain_cache /\ last_displayed_brain # NoneImg) =>
              d = Pixmap(last_displayed_brain)
         /\ (c < timeseries_data.len /\ c \notin DOMAIN brain_cache
               /\ last_displayed_brain = NoneImg) =>
              d = Text("computing", c)
         /\ (c >= timeseries_data.len /\ last_displayed_brain = NoneImg) =>
              d.kind # "pixmap"

\* C3 witness: volumes 6 and 7 are cached, the position is 6.5 TR and the
\* label shows the 50/50 blend of the two.
C3_Witness ==
  /\ op = "update_position"
  /\ {6, 7} \subseteq DOMAIN brain_cache
  /\ 2 * Frac(frame_idx * TicksPerFrame + onset_time, tr) = tr
  /\ current_tr = 6
  /\ display.kind = "pixmap"
  /\ display.img.src = brain_cache[6].src \cup brain_cache[7].src
  /\ display.img = last_displayed_brain

\* C3, second scenario: volumes 6 and 7 are cached, the position is 6.005 TR
\* and the label shows image 6 unchanged.
C3_WitnessBelowEpsilon ==
  /\ op = "update_position"
  /\ {6, 7} \subseteq DOMAIN brain_cache
  /\ 200 * Frac(frame_idx * TicksPerFrame + onset_time, tr) = tr
  /\ display = Pixmap(brain_cache[6])

\* The floor volume index of frame f in the loaded recording.
VolumeOf(f) == Floor(f * TicksPerFrame + onset_time, tr)

\* C4 as claimed: once the task of an index has raised, every lookup whose
\* floor index is that volume shows "Computing TR n..." (not yet available),
\* whatever was looked up before.
C4_FailedAlwaysUnavailable ==
  (Loaded /\ op = "update_position" /\ VolumeOf(frame_idx) \in failed) =>
    display = Text("computing", VolumeOf(frame_idx))

\* C4 as amended: an index whose task raised is never in the cache, is no
\* longer pending and was submitted exactly once; a lookup at it takes the
\* same path as a lookup at an index not computed yet: it shows the last
\* displayed image when there is one, "Computing TR n..." otherwise, and
\* leaves the last displayed image as it is.
C4_FailedIsAMiss ==
  \A i \in failed :
    /\ i \notin DOMAIN brain_cache
    /\ i \notin DOMAIN futures
    /\ Count(submitted, i) = 1
    /\ \A f \in Frames :
         (Loaded /\ VolumeOf(f) = i) =>
           LET s == UpdatePosition(ReadState, f)
           IN /\ s.last = last_displayed_brain
              /\ s.cache = brain_cache
              /\ s.disp = IF last_displayed_brain = NoneImg
                          THEN Text("computing", i)
                          ELSE Pixmap(last_displayed_brain)
              /\ <<loads, i>> \notin s.disp.img.src

\* C4 witness: a lookup at an index whose task raised shows the image of an
\* earlier lookup.
C4_Witness ==
  /\ Loaded
  /\ op = "update_position"
  /\ VolumeOf(frame_idx) \in failed
  /\ current_tr = VolumeOf(frame_idx)
  /\ display.kind = "pixmap"

\* C5: the tasks submitted by a load are exactly one per index of
\* [start_tr, end_tr) and none outside; afterwards every pending future
\* belongs to one index of the range, and an index of the range is pending
\* until its task was collected (cached), raised (failed) or was cancelled
\* by clear, and not afterwards.
C5_OneTaskPerIndex ==
  /\ \A k \in DOMAIN submitted : submitted[k] \in Range
  /\ \A i \in Range : Loaded => Count(submitted, i) = 1
  /\ DOMAIN futures \subseteq Range
  /\ DOMAIN futures \cap (DOMAIN brain_cache \cup failed) = {}
  /\ DOMAIN brain_cache \cap failed = {}
  /\ Loaded => Range = DOMAIN futures \cup DOMAIN brain_cache \cup failed
  /\ ~Loaded => DOMAIN futures = {}

\* C5 witness: of the three tasks of a recording one was collected, one
\* raised and one is still pending.
C5_Witness ==
  /\ Loaded
  /\ Len(submitted) = 3
  /\ Cardinality(DOMAIN brain_cache) = 1
  /\ Cardinality(failed) = 1
  /\ Cardinality(DOMAIN futures) = 1

\* C6 as claimed: after a load the range is [floor(onset/tr),
\* floor((onset+duration)/tr) + 2] clamped to [0, len), so that
\* 0 <= start_tr <= end_tr <= len and total_trs = end_tr - start_tr >= 0;
\* with no replay_duration, end_tr = len.
C6_RangeClamped ==
  (op = "load_timeseries" /\ Loaded) =>
    /\ 0 <= start_tr /\ start_tr <= end_tr /\ end_tr <= timeseries_data.len
    /\ total_trs = end_tr - start_tr
    /\ total_trs >= 0
    /\ start_tr = Min(Max(Floor(onset_time, tr), 0), timeseries_data.len)
    /\ replay_duration = NoDuration => end_tr = timeseries_data.len
    /\ replay_duration # NoDuration =>
         end_tr = Max(start_tr,
                      Min(Floor(onset_time + replay_duration, tr) + 2, timeseries_data.len))

\* C7 as claimed: one call of _poll_futures deletes at most max_per_cycle
\* futures from the pending set, all of them done.
C7_PollBounded ==
  op = "_poll_futures" => Cardinality(removed) <= max_per_cycle

\* C8 as claimed: after a poll step the progress value is the number of
\* tasks of the recording that are no longer pending, whether they returned
\* or raised, out of total_trs.
C8_ProgressCountsCompleted ==
  (op = "_poll_futures" /\ removed # {}) =>
    progress_bar.value = total_trs - Cardinality(DOMAIN futures)

\* C8 as amended: after every poll step that collects, the progress value is
\* the number of cached images, which is the number of tasks of the recording
\* that returned and were collected (a task that raised is not counted), out
\* of the maximum total_trs; it never decreases from one poll to the next, and
\* when the pending set becomes empty it is total_trs minus the number of
\* tasks that raised.
C8_ProgressCountsCached ==
  [][(op' = "_poll_futures" /\ DOMAIN futures # {}) =>
       /\ progress_bar'.value = Cardinality(DOMAIN brain_cache')
       /\ progress_bar'.value = Cardinality(Range \ (DOMAIN futures' \cup failed'))
       /\ progress_bar'.maximum = total_trs'
       /\ progress_bar'.value >= progress_bar.value
       /\ (DOMAIN futures' = {} =>
             progress_bar'.value = total_trs' - Cardinality(failed'))]_vars

\* C8 witness: the last poll of a recording emptied the pending set with one
\* task failed, and the progress value stays below total_trs.
C8_Witness ==
  /\ op = "_poll_futures"
  /\ removed # {}
  /\ DOMAIN futures = {}
  /\ Cardinality(failed) = 1
  /\ progress_bar.value = total_trs - 1
  /\ progress_bar.value > 0

\* C9: a second lookup at the same frame, with no poll, load or clear in
\* between, shows exactly what the first one showed and leaves the widget as
\* the first one left it.
C9_LookupIdempotent ==
  \A f \in Frames :
    LET s1 == UpdatePosition(ReadState, f)
        s2 == UpdatePosition(s1, f)
    IN s2.disp = s1.disp /\ s2.last = s1.last /\ s2.cur = s1.cur

\* C9 witness: a lookup that missed has shown the image of an earlier lookup
\* at another index, and repeating it shows the same image.
C9_Witness ==
  /\ Loaded
  /\ op = "update_position"
  /\ current_tr = VolumeOf(frame_idx)
  /\ current_tr \notin DOMAIN brain_cache
  /\ display.kind = "pixmap"
  /\ Shown(frame_idx) = display

\* Frame indices over which the frame-to-volume conversion is compared with
\* the exact floor, for every onset_time a load has set.
MaxFrame == 180

CacheReads(s, f) ==
  IF s.len < 0 THEN {}
  ELSE LET t == TimeInRun(f, s.onset)
           c == CurrentTr(t)
       IN IF c >= s.len \/ c \notin DOMAIN s.cache THEN {}
          ELSE IF ShouldBlend(Alpha(t), c + 1, s.len, s.cache) THEN {c, c + 1}
          ELSE {c}

C11_WitnessPastEnd ==
  /\ Loaded
  /\ op = "update_position"
  /\ CurrentTr(TimeInRun(frame_idx, onset_time)) >= timeseries_data.len
  /\ current_tr = 0 - 1

\* =========================================================== VideoPlayer
\* video_player.py and ReplayVisualizerApp.on_frame_changed / on_replay_selected
\* (main_window.py).  Elapsed time is in milliseconds as QElapsedTimer gives it.

_heavy_update_interval == 3

\* replays the player can be asked to load: [rep, n] with n frames in the movie
PlayerReplays == {[rep |-> 1, n |-> 8], [rep |-> 2, n |-> 4]}
\* how a load ends: the ROM directory is missing, the decode completes, or
\* the replay generator raises after k frames
NoRom == 0 - 2
Complete == 0 - 1
RaiseAfter == {3}
\* delays between two timer callbacks, and arguments of seek_to_time, in ms
TimerDelays == {10, 120}
SeekTimes == {0, 100, 1000}

DecodedFrames(rep, k) == [i \in 1 .. k |-> <<rep, i - 1>>]

\* the fields the player's methods read and write, as a record
PlayerState ==
  [frames |-> frames, cur |-> current_frame_idx, playing |-> is_playing,
   start |-> _playback_start_frame, elapsed |-> elapsed_ms,
   last_heavy |-> _last_heavy_update_frame, light |-> light_frame,
   heavy |-> heavy_frame, emitted |-> FALSE, high |-> timer_high, fin |-> FALSE]

Abs(x) == IF x < 0 THEN 0 - x ELSE x

\* ReplayVisualizerApp.on_frame_changed: light widgets always, heavy widgets
\* when the frame moved by the interval or more since their last update
HeavyDue_seekonly(delta) == delta > _heavy_update_interval * 2
HeavyDue(delta) ==
  LET is_seeking == delta > _heavy_update_interval * 2
  IN is_seeking \/ delta >= _heavy_update_interval

on_frame_changed(s, f) ==
  IF HeavyDue(Abs(f - s.last_heavy))
  THEN [s EXCEPT !.light = f, !.last_heavy = f, !.heavy = f]
  ELSE [s EXCEPT !.light = f]

\* VideoPlayer.display_frame: emits frame_changed, which runs the handler
display_frame(s, f) ==
  IF Len(s.frames) = 0 \/ f < 0 \/ f >= Len(s.frames) THEN s
  ELSE on_frame_changed([s EXCEPT !.cur = f, !.emitted = TRUE], f)

play(s) ==
  IF Len(s.frames) = 0 THEN s
  ELSE [s EXCEPT !.playing = TRUE, !.start = s.cur, !.elapsed = 0, !.high = 0 - 1]

\* pause stops the timer; the elapsed time is not read again before play restarts it
pause(s) == [s EXCEPT !.playing = FALSE, !.elapsed = 0, !.high = 0 - 1]

\* advance_frame with e = elapsed_timer.elapsed()
AdvanceFrame_back(s, e) ==
  LET target == Min((e * fps) \div 1000 + s.start, Len(s.frames) - 1)
      s1 == IF target # s.cur
            THEN [display_frame(s, target) EXCEPT !.high = target]
            ELSE s
  IN IF s1.cur >= Len(s1.frames) - 1
     THEN [pause(s1) EXCEPT !.fin = TRUE]
     ELSE [s1 EXCEPT !.elapsed = e]
\* advance_frame without the end check: the timer is never stopped
AdvanceFrame_nostop(s, e) ==
  LET target == Min((e * fps) \div 1000 + s.start, Len(s.frames) - 1)
  IN IF target > s.cur
     THEN [display_frame(s, target) EXCEPT !.high = target, !.elapsed = Min(e, 1000)]
     ELSE [s EXCEPT !.elapsed = Min(e, 1000)]
AdvanceFrame(s, e) ==
  LET target == Min((e * fps) \div 1000 + s.start, Len(s.frames) - 1)
      s1 == IF target > s.cur
            THEN [display_frame(s, target) EXCEPT !.high = target]
            ELSE s
  IN IF s1.cur >= Len(s1.frames) - 1
     THEN [pause(s1) EXCEPT !.fin = TRUE]
     ELSE [s1 EXCEPT !.elapsed = e]

StepForward(s) ==
  LET s1 == pause(s)
      s2 == IF s1.cur < Len(s1.frames) - 1 THEN display_frame(s1, s1.cur + 1) ELSE s1
  IN IF s.playing THEN play(s2) ELSE s2

StepBackward(s) ==
  LET s1 == pause(s)
      s2 == IF s1.cur > 0 THEN display_frame(s1, s1.cur - 1) ELSE s1
  IN IF s.playing THEN play(s2) ELSE s2

ResetPlayback(s) == display_frame(pause(s), 0)

OnSliderChanged(s, value) == IF value # s.cur THEN display_frame(s, value) ELSE s

\* seek_to_time with the time in milliseconds
SeekToTime(s, ms) ==
  IF Len(s.frames) = 0 THEN s
  ELSE display_frame(s, Max(0, Min(IntTrunc(ms * fps, 1000), Len(s.frames) - 1)))

\* the player's fields after a method that took them from s
PlayerBecomes(s, name) ==
  /\ frames' = s.frames
  /\ current_frame_idx' = s.cur
  /\ is_playing' = s.playing
  /\ _playback_start_frame' = s.start
  /\ elapsed_ms' = s.elapsed
  /\ _last_heavy_update_frame' = s.last_heavy
  /\ light_frame' = s.light
  /\ heavy_frame' = s.heavy
  /\ emitted' = s.emitted
  /\ timer_high' = s.high
  /\ playback_finished' = s.fin
  /\ pop' = name
  /\ UNCHANGED notPlayer

\* the play button
toggle_playback ==
  /\ controls_enabled
  /\ PlayerBecomes(IF is_playing THEN pause(PlayerState) ELSE play(PlayerState),
                   "toggle_playback")
  /\ UNCHANGED <<controls_enabled, slider_max, downstream_duration, partial>>

\* the playback timer fires d ms after the previous callback
advance_frame(d) ==
  /\ is_playing
  /\ PlayerBecomes(AdvanceFrame(PlayerState, elapsed_ms + d), "advance_frame")
  /\ UNCHANGED <<controls_enabled, slider_max, downstream_duration, partial>>

step_forward ==
  /\ controls_enabled
  /\ PlayerBecomes(StepForward(PlayerState), "step_forward")
  /\ UNCHANGED <<controls_enabled, slider_max, downstream_duration, partial>>

step_backward ==
  /\ controls_enabled
  /\ PlayerBecomes(StepBackward(PlayerState), "step_backward")
  /\ UNCHANGED <<controls_enabled, slider_max, downstream_duration, partial>>

reset_playback ==
  /\ controls_enabled
  /\ PlayerBecomes(ResetPlayback(PlayerState), "reset_playback")
  /\ UNCHANGED <<controls_enabled, slider_max, downstream_duration, partial>>

\* the user moves the slider to value
on_slider_changed(value) ==
  /\ controls_enabled
  /\ PlayerBecomes(OnSliderChanged(PlayerState, value), "on_slider_changed")
  /\ UNCHANGED <<controls_enabled, slider_max, downstream_duration, partial>>

seek_to_time(ms) ==
  /\ PlayerBecomes(SeekToTime(PlayerState, ms), "seek_to_time")
  /\ UNCHANGED <<controls_enabled, slider_max, downstream_duration, partial>>

\* load_replay up to the end of its try block: the frames list is emptied,
\* then filled frame by frame; on completion the controls are set up and
\* frame 0 is displayed; an exception of the generator is caught and printed
LoadReplay(s, r, out) ==
  LET s0 == [s EXCEPT !.frames = <<>>, !.cur = 0, !.high = 0 - 1]
  IN IF out = NoRom THEN s0
     ELSE IF out = Complete
     THEN display_frame([s0 EXCEPT !.frames = DecodedFrames(r.rep, r.n)], 0)
     ELSE [s0 EXCEPT !.frames = DecodedFrames(r.rep, out)]

\* on_replay_selected: load_replay, and unless it raised (missing ROM) the
\* downstream loads, which take replay_duration from len(video_player.frames)
on_replay_selected(r, out) ==
  /\ out \in {NoRom, Complete} \cup {k \in RaiseAfter : k < r.n}
  /\ LET s == LoadReplay(PlayerState, r, out)
     IN /\ PlayerBecomes(s, "on_replay_selected")
        /\ downstream_duration' =
             IF out = NoRom THEN downstream_duration
             ELSE IF Len(s.frames) > 0 THEN Len(s.frames) ELSE 0 - 1
  /\ controls_enabled' = (controls_enabled \/ out = Complete)
  /\ slider_max' = IF out = Complete THEN r.n - 1 ELSE slider_max
  /\ partial' = (out \notin {NoRom, Complete})

NextPlayer ==
  \/ \E r \in PlayerReplays, out \in {NoRom, Complete} \cup RaiseAfter :
       on_replay_selected(r, out)
  \/ toggle_playback
  \/ \E d \in TimerDelays : advance_frame(d)
  \/ step_forward
  \/ step_backward
  \/ reset_playback
  \/ \E value \in 0 .. slider_max : on_slider_changed(value)
  \/ \E ms \in SeekTimes : seek_to_time(ms)

SpecPlayer == Init /\ [][NextPlayer]_allVars

\* ---------------------------------------------------------------- claims
SeekOps == {"on_slider_changed", "step_forward", "step_backward", "reset_playback",
            "seek_to_time"}

\* C12: every frame change caused by a user seek (slider change, step
\* forward, step backward, reset, seek_to_time), of any size, updates the
\* heavy widgets (glassbrain, physio) to the sought frame.
C12_SeekForcesHeavy ==
  [][(pop' \in SeekOps /\ emitted') => heavy_frame' = current_frame_idx']_allVars

\* C13: during forward playback (timer-driven advance_frame between play and
\* pause) of a recording, the frame a timer callback displays is the one the
\* elapsed time gives, start frame + floor(elapsed * fps), clamped to the
\* last frame; the callback never moves the displayed index backwards, the
\* frames the timer emits in one playback are non-decreasing, and none
\* exceeds frame_count - 1.
C13_PlaybackMonotone ==
  [][pop' = "advance_frame" =>
       IF emitted'
       THEN /\ \E d \in TimerDelays :
                 current_frame_idx' =
                   Min(_playback_start_frame + ((elapsed_ms + d) * fps) \div 1000,
                       Len(frames) - 1)
            /\ light_frame' = current_frame_idx'
            /\ current_frame_idx' > current_frame_idx
            /\ current_frame_idx' >= timer_high
            /\ current_frame_idx' <= Len(frames) - 1
            /\ timer_high' \in {current_frame_idx', 0 - 1}
       ELSE current_frame_idx' = current_frame_idx]_allVars

\* C13 witness: a timer callback emitted a frame past the start frame and
\* playback goes on.
C13_Witness ==
  /\ pop = "advance_frame"
  /\ emitted
  /\ is_playing
  /\ timer_high = current_frame_idx
  /\ current_frame_idx > _playback_start_frame + 1

\* C13 witness: the callback clamped the frame to the last one and paused.
C13_WitnessEnd ==
  /\ pop = "advance_frame"
  /\ emitted
  /\ ~is_playing
  /\ current_frame_idx = Len(frames) - 1
  /\ Len(frames) = 8

\* C16: a failure of the whole recording in load_replay aborts the load and
\* leaves no partially initialised recording visible: after a load whose
\* decode raised, the player holds no frame of the partially decoded replay,
\* the downstream loads of on_replay_selected are not run on the partial
\* frames, and play, the timer and the seeks display no partial frame.
C16_NoPartialRecording ==
  /\ [](partial => frames = <<>>)
  /\ [][(partial' /\ pop' = "on_replay_selected") =>
          downstream_duration' = downstream_duration]_allVars
  /\ [][(partial /\ pop' \in SeekOps \cup {"toggle_playback", "advance_frame"}) =>
          (~emitted' /\ ~is_playing')]_allVars

\* ============================================================== replay.py
\* get_variables_from_replay, get_variables_from_replay_streaming and
\* reformat_info, driven by the generator replay_bk2.

MaxSteps == 3

\* emulator.buttons, and the metadata keys reformat_info starts the dict with
actions == <<"A", "B">>
Reserved == {"filename", "level", "subject", "session", "actions"}
Buttons(acts) == {acts[j] : j \in DOMAIN acts}

\* the annotation dicts a step can expose: the usual keys, a key missing, a
\* key added, a key named like a button, a key named like a metadata key
InfoKinds == {"full", "short", "extra", "button", "reserved"}
InfoKeys(kind) ==
  CASE kind = "full" -> {"score", "lives"}
    [] kind = "short" -> {"score"}
    [] kind = "extra" -> {"score", "lives", "time"}
    [] kind = "button" -> {"score", "lives", "A"}
    [] kind = "reserved" -> {"score", "lives", "level"}
\* step i of a movie: annotations["info"], the key vector and the emulator state
InfoOf(kind, i) == [k \in InfoKeys(kind) |-> IF k = "score" THEN 10 * i ELSE i]
KeysAt(i) == <<i % 2, 1>>
StateAt(i) == 100 + i
Movies == UNION {[1 .. n -> InfoKinds] : n \in 0 .. MaxSteps}
StepsOf(m) == [i \in DOMAIN m |-> [info |-> InfoOf(m[i], i), keys |-> KeysAt(i),
                                   state |-> StateAt(i)]]

\* what the generator yields: with skip_first_step one movie.step() is
\* consumed before the loop
Yielded(c) == IF c.skip /\ Len(c.steps) > 0 THEN Tail(c.steps) ELSE c.steps

\* reformat_info: the outcome of an exception is [ok |-> FALSE]
RaisedTable == [ok |-> FALSE, table |-> NoTable]
RECURSIVE FillColumns(_, _, _, _, _)
FillColumns(rv, info, keys, acts, i) ==
  IF i > Len(info) THEN [ok |-> TRUE, table |-> rv]
  ELSE IF \E k \in DOMAIN info[i] : k \notin DOMAIN rv \/ rv[k].kind = "meta"
  THEN RaisedTable
  ELSE LET a == [k \in DOMAIN rv |->
                   IF k \in DOMAIN info[i] THEN List(Append(rv[k].v, info[i][k]))
                   ELSE rv[k]]
           b == [k \in DOMAIN rv |->
                   IF k \in Buttons(acts)
                   THEN List(Append(a[k].v, keys[i][CHOOSE j \in DOMAIN acts : acts[j] = k]))
                   ELSE a[k]]
       IN FillColumns(b, info, keys, acts, i + 1)

reformat_info(info, keys, acts) ==
  IF Len(info) = 0 THEN RaisedTable
  ELSE LET rv == [k \in Reserved \cup DOMAIN info[1] \cup Buttons(acts) |->
                    IF k \in DOMAIN info[1] \cup Buttons(acts) THEN List(<<>>) ELSE Meta]
       IN FillColumns(rv, info, keys, acts, 1)

\* where a call can fail: the producer raises when asked for step at + 1 (at
\* = 0 also stands for the movie or the emulator that cannot be constructed),
\* or, when streaming, resize or the row assignment raises at step at + 1
Faults(n, streaming) ==
  {NoFault}
  \cup {[kind |-> "producer", at |-> k] : k \in 0 .. Max(n - 1, 0)}
  \cup {[kind |-> kd, at |-> k] :
          kd \in IF streaming THEN {"resize", "write"} ELSE {}, k \in 0 .. (n - 1)}

\* a row made by resize and not yet assigned
Blank == 0

\* the state when an exception leaves the function: nothing is returned and
\* the local lists are gone
OnException_partial(info, keys) ==
  [rpc |-> "returned", info |-> info, keys |-> keys,
   result |-> [returned |-> TRUE, variables |-> NoTable, n_frames |-> Len(info)]]
OnException(info, keys) ==
  [rpc |-> "raised", info |-> <<>>, keys |-> <<>>, result |-> NoResult]

\* leaving the "with h5py.File(...)" block closes the file, on an exception too
Closed(f) == IF f.open THEN [f EXCEPT !.open = FALSE] ELSE f

\* states_dataset.resize(frame_idx + 1); states_dataset[frame_idx] = state_array
Resized(rows, idx) == [i \in 1 .. (idx + 1) |-> IF i <= Len(rows) THEN rows[i] ELSE Blank]
Assigned_first(rows, idx, st) == [rows EXCEPT ![1] = st]
Assigned(rows, idx, st) == [rows EXCEPT ![idx + 1] = st]

\* the call: the generator object is made (nothing runs yet), the lists are
\* empty and, when streaming, the output file is created or truncated.  A
\* behaviour follows one call: calls share nothing but the output file, which
\* the next call truncates.
get_variables_from_replay(m, skip, streaming, fault) ==
  /\ rpc = "idle"
  /\ LET c == [steps |-> StepsOf(m), skip |-> skip, streaming |-> streaming,
               fault |-> fault]
     IN /\ fault \in Faults(Len(Yielded(c)), streaming)
        /\ call' = c
  /\ rpc' = "running"
  /\ replay_info' = <<>>
  /\ replay_keys' = <<>>
  /\ states_idx' = 0
  /\ result' = NoResult
  /\ hf' = IF streaming
           THEN [exists |-> TRUE, open |-> TRUE, dataset |-> FALSE, rows |-> <<>>]
           ELSE hf
  /\ UNCHANGED notReplay

\* the function ends with an exception
Raise ==
  LET x == OnException(replay_info, replay_keys)
  IN /\ rpc' = x.rpc
     /\ replay_info' = x.info
     /\ replay_keys' = x.keys
     /\ result' = x.result

\* one iteration of the for loop over the generator
replay_step ==
  /\ rpc = "running"
  /\ LET n == Len(replay_info)
         y == Yielded(call)
     IN /\ n < Len(y) \/ (call.fault.kind = "producer" /\ call.fault.at = n)
        /\ IF call.fault.kind = "producer" /\ call.fault.at = n
           THEN /\ Raise
                /\ hf' = Closed(hf)
                /\ UNCHANGED states_idx
           ELSE LET st == y[n + 1]
                    f1 == [hf EXCEPT !.dataset = TRUE]
                    f2 == [f1 EXCEPT !.rows = Resized(f1.rows, states_idx)]
                    f3 == [f2 EXCEPT !.rows = Assigned(f2.rows, states_idx, st.state)]
                IN IF call.streaming /\ call.fault.at = n /\ call.fault.kind = "resize"
                   THEN Raise /\ hf' = Closed(f1) /\ UNCHANGED states_idx
                   ELSE IF call.streaming /\ call.fault.at = n /\ call.fault.kind = "write"
                   THEN Raise /\ hf' = Closed(f2) /\ UNCHANGED states_idx
                   ELSE /\ replay_info' = Append(replay_info, st.info)
                        /\ replay_keys' = Append(replay_keys, st.keys)
                        /\ hf' = IF call.streaming THEN f3 ELSE hf
                        /\ states_idx' = IF call.streaming THEN states_idx + 1 ELSE states_idx
                        /\ UNCHANGED <<rpc, result>>
  /\ UNCHANGED call
  /\ UNCHANGED notReplay

\* the generator is exhausted: the file is closed, reformat_info builds the
\* variables and the function returns (or reformat_info raises)
replay_finish ==
  /\ rpc = "running"
  /\ Len(replay_info) = Len(Yielded(call))
  /\ ~(call.fault.kind = "producer" /\ call.fault.at = Len(replay_info))
  /\ LET v == reformat_info(replay_info, replay_keys, actions)
     IN IF v.ok
        THEN /\ result' = [returned |-> TRUE, variables |-> v.table,
                           n_frames |-> Len(replay_info)]
             /\ rpc' = "returned"
             /\ UNCHANGED <<replay_info, replay_keys>>
        ELSE Raise
  /\ hf' = Closed(hf)
  /\ UNCHANGED <<call, states_idx>>
  /\ UNCHANGED notReplay

NextReplay ==
  \/ /\ rpc = "idle"
     /\ \E m \in Movies, skip \in BOOLEAN, streaming \in BOOLEAN :
          \E fault \in Faults(Len(m), streaming) :
            get_variables_from_replay(m, skip, streaming, fault)
  \/ replay_step
  \/ replay_finish

SpecReplay == Init /\ [][NextReplay]_allVars

\* ---------------------------------------------------------------- claims
\* the annotation keys of the frames the call collected
SeenKeys == UNION {DOMAIN replay_info[i] : i \in DOMAIN replay_info}

\* C14: in the variables reformat_info returns, every per-frame sequence, one
\* per annotation key and one per button name, has the same length, the
\* number of frames, whatever the per-frame annotation dicts are (key sets
\* that differ between frames, keys named like a button or a metadata key).
C14_EqualLengths ==
  result.returned =>
    \A k \in DOMAIN result.variables \cup SeenKeys \cup Buttons(actions) :
      /\ k \in DOMAIN result.variables
      /\ (k \in SeenKeys \cup Buttons(actions) \/ result.variables[k].kind = "list") =>
           /\ result.variables[k].kind = "list"
           /\ Len(result.variables[k].v) = result.n_frames

\* C15: if the replay producer cannot be constructed or raises at any step,
\* get_variables_from_replay ends with the exception and returns no result;
\* the frames, keys and annotations captured before the failure are dropped
\* with the call and never returned.
C15_FailureReturnsNothing ==
  (~call.streaming /\ call.fault.kind = "producer") =>
    /\ result = NoResult
    /\ rpc \in {"running", "raised"}
    /\ rpc = "raised" => (replay_info = <<>> /\ replay_keys = <<>>)
    /\ rpc = "running" => Len(replay_info) <= call.fault.at

\* C15 witness: the producer raised at the third step, after two steps had
\* been captured.
C15_Witness ==
  /\ ~call.streaming
  /\ call.fault = [kind |-> "producer", at |-> 2]
  /\ rpc = "raised"

\* C15 witness: the producer could not be constructed.
C15_WitnessConstruct ==
  /\ ~call.streaming
  /\ call.fault = [kind |-> "producer", at |-> 0]
  /\ call.steps = <<>>
  /\ rpc = "raised"

\* C17: the streaming variant writes one state row per replay step, as the
\* steps come and in their order: after the k-th step the 'states' table has
\* exactly k rows and row i holds the snapshot of the i-th step; when the
\* call returns, the file is closed and its row count is the number of
\* frames returned.
C17_OneRowPerStep ==
  (call.streaming /\ rpc \in {"running", "returned"}) =>
    /\ hf.exists
    /\ Len(hf.rows) = Len(replay_info)
    /\ states_idx = Len(replay_info)
    /\ hf.dataset = (Len(replay_info) > 0)
    /\ \A i \in DOMAIN hf.rows : hf.rows[i] = Yielded(call)[i].state
    /\ rpc = "returned" =>
         /\ ~hf.open
         /\ Len(hf.rows) = result.n_frames
         /\ Len(hf.rows) = Len(Yielded(call))

\* C17 witness: two of three steps are written and the loop is still running.
C17_Witness ==
  /\ call.streaming
  /\ rpc = "running"
  /\ Len(Yielded(call)) = 3
  /\ hf.rows = <<StateAt(1), StateAt(2)>>

\* C17 witness: a call with skip_first_step returned; the rows are the
\* snapshots of the second and third movie steps.
C17_WitnessReturned ==
  /\ call.streaming
  /\ call.skip
  /\ rpc = "returned"
  /\ hf.rows = <<StateAt(2), StateAt(3)>>

\* C18: if the producer or a write fails at any step while streaming,
\* get_variables_from_replay_streaming reports the failure and does not
\* leave at states_output_path a table file that can be taken for a complete
\* one: the partially written file is removed (the code has no way to flag
\* a file as corrupt).
C18_NoPartialFile ==
  (call.streaming /\ call.fault.kind # "none" /\ rpc # "running") =>
    /\ rpc = "raised"
    /\ result = NoResult
    /\ ~hf.exists

\* ========================================================== EventsWidget
\* load_annotated_events (utils.py) and EventsWidget.load_events /
\* update_position (events_widget.py).  Times are in ticks.

\* file names as sequences of characters, for str.contains
NameA == <<1>>
NameXA == <<2, 1>>
NameB == <<3>>
NameC == <<4>>
NoName == <<>>
Contains(str, pat) ==
  \E i \in 0 .. (Len(str) - Len(pat)) : SubSeq(str, i + 1, i + Len(pat)) = pat

\* rows of desc-annotated_events.tsv
Marker(stim, onset) ==
  [trial_type |-> "gym-retro_game", stim_file |-> stim, onset |-> onset,
   duration |-> Seconds(5, 0), display_duration |-> 0 - 1]
Event(type, onset, duration) ==
  [trial_type |-> type, stim_file |-> NoName, onset |-> onset,
   duration |-> duration, display_duration |-> 0 - 1]

EventFiles ==
  { <<>>,
    <<Marker(NameA, Seconds(10, 0)), Event("kill", Seconds(13, 0), 0),
      Event("jump", Seconds(13, 20000), Seconds(1, 0)),
      Marker(NameB, Seconds(20, 0)), Event("coin", Seconds(21, 0), Seconds(0, 25000))>>,
    <<Event("start", Seconds(1, 0), 0), Marker(NameXA, Seconds(5, 0)),
      Event("hit", Seconds(8, 0), 0), Marker(NameA, Seconds(9, 0)),
      Event("coin", Seconds(12, 0), Seconds(2, 0))>>,
    <<Marker(NameB, Seconds(2, 0)), Marker(NoName, Seconds(4, 0)),
      Event("kill", Seconds(5, 0), 0)>>,
    <<Marker(NameA, Seconds(10, 0)), Event("jump", Seconds(12, 0), Seconds(2, 0)),
      Event("kill", Seconds(13, 0), 0), Marker(NoName, Seconds(14, 0)),
      Event("coin", Seconds(15, 0), 0)>> }
FileNames == {NameA, NameB, NameC}
EventFrames == {0, 120, 179, 180, 209, 210, 240}

\* (df.trial_type == 'gym-retro_game') & df.stim_file.str.contains(bk2_filename, na=False)
GameRowMask(df, name) ==
  {i \in DOMAIN df : df[i].trial_type = "gym-retro_game" /\ Contains(df[i].stim_file, name)}
MinOf(S) == CHOOSE i \in S : \A j \in S : i <= j

\* display_duration: 0.5 s for a zero duration
DisplayDuration(d) == IF d = 0 THEN TicksPerSecond \div 2 ELSE d

\* df.loc[game_row_idx : next_game_idx - 1] (or to the end), label slices
\* include both ends
ReplaySlice_after(df, first, next) ==
  SubSeq(df, first + 1, IF next = 0 THEN Len(df) ELSE next - 1)
ReplaySlice(df, first, next) ==
  SubSeq(df, first, IF next = 0 THEN Len(df) ELSE next - 1)

load_annotated_events(df, name) ==
  IF GameRowMask(df, name) = {} THEN <<>>
  ELSE LET game_row_idx == MinOf(GameRowMask(df, name))
           replay_onset == df[game_row_idx].onset
           later == {i \in DOMAIN df : i > game_row_idx /\ df[i].trial_type = "gym-retro_game"}
           next_game_idx == IF later = {} THEN 0 ELSE MinOf(later)
           replay_events == ReplaySlice(df, game_row_idx, next_game_idx)
       IN [i \in DOMAIN replay_events |->
             [replay_events[i] EXCEPT !.onset = @ - replay_onset,
                                      !.display_duration = DisplayDuration(replay_events[i].duration)]]

\* self.events_df[self.events_df['trial_type'] != 'gym-retro_game']
IsEventRow(r) == r.trial_type # "gym-retro_game"
WithoutGameRows(rows) == SelectSeq(rows, IsEventRow)

\* EventsWidget.load_events: ok = FALSE when reading the file raises, the
\* except branch leaves events_df as it was
load_events(df, name, ok) ==
  /\ LET r == load_annotated_events(df, name)
     IN /\ events_df' = IF ~ok THEN events_df
                        ELSE IF r = <<>> THEN <<>> ELSE WithoutGameRows(r)
        /\ returned_events' = IF ok THEN r ELSE <<>>
  /\ events_file' = df
  /\ bk2_filename' = name
  /\ eop' = IF ok THEN "load_events" ELSE "load_failed"
  /\ UNCHANGED <<active_events, eframe>>
  /\ UNCHANGED notEvents

\* onset <= current_time < onset + duration, with the display duration
IsActive_closed(row, t) == row.onset <= t /\ t <= row.onset + row.display_duration
IsActive(row, t) == row.onset <= t /\ t < row.onset + row.display_duration

ActiveEvent(row, t) ==
  [type |-> row.trial_type, onset |-> row.onset, duration |-> row.display_duration,
   time_in_event |-> t - row.onset]

\* the loop over events_df.iterrows(), from row i on
RECURSIVE ActiveFrom(_, _, _)
ActiveFrom(rows, t, i) ==
  IF i > Len(rows) THEN <<>>
  ELSE IF IsActive(rows[i], t)
  THEN <<ActiveEvent(rows[i], t)>> \o ActiveFrom(rows, t, i + 1)
  ELSE ActiveFrom(rows, t, i + 1)

\* EventsWidget.update_position
events_update_position(f) ==
  /\ active_events' = IF events_df = <<>> THEN active_events
                      ELSE ActiveFrom(events_df, f * TicksPerFrame, 1)
  /\ eframe' = f
  /\ eop' = "update_position"
  /\ UNCHANGED <<events_df, returned_events, events_file, bk2_filename>>
  /\ UNCHANGED notEvents

NextEvents ==
  \/ \E df \in EventFiles, name \in FileNames, ok \in BOOLEAN : load_events(df, name, ok)
  \/ \E f \in EventFrames : events_update_position(f)

SpecEvents == Init /\ [][NextEvents]_allVars

\* ---------------------------------------------------------------- claims
\* C19: after update_position on a non-empty replay-scoped event list, an
\* event with onset o and duration d is listed as active at replay time
\* t = frame / fps exactly when o <= t < o + d', where d' = 0.5 s if d = 0
\* and d otherwise, and the active events are listed in table order.
C19_ActiveWindow ==
  (eop = "update_position" /\ events_df # <<>>) =>
    LET t == eframe * TicksPerFrame
        Shown_d(i) == IF events_df[i].duration = 0 THEN TicksPerSecond \div 2
                      ELSE events_df[i].duration
        on == {i \in DOMAIN events_df :
                 events_df[i].onset <= t /\ t < events_df[i].onset + Shown_d(i)}
    IN /\ Len(active_events) = Cardinality(on)
       /\ \A i \in on :
            LET k == Cardinality({j \in on : j <= i})
            IN /\ active_events[k].type = events_df[i].trial_type
               /\ active_events[k].onset = events_df[i].onset
               /\ active_events[k].duration = Shown_d(i)
               /\ active_events[k].time_in_event = t - events_df[i].onset

\* C19 witness: the event of duration 0 at onset 3.0 s is active at frame
\* 209 (t = 3.483 s), together with an earlier event that is listed first.
C19_Witness ==
  /\ eop = "update_position"
  /\ eframe = 209
  /\ Len(active_events) = 2
  /\ active_events[1].onset = Seconds(2, 0)
  /\ active_events[2].onset = Seconds(3, 0)
  /\ active_events[2].duration = TicksPerSecond \div 2
  /\ \E i \in DOMAIN events_df : events_df[i].onset = Seconds(3, 0) /\ events_df[i].duration = 0

\* C19 witness: at frame 210 (t = 3.5 s) the same event is no longer active.
C19_WitnessEnd ==
  /\ eop = "update_position"
  /\ eframe = 210
  /\ \E i \in DOMAIN events_df : events_df[i].onset = Seconds(3, 0) /\ events_df[i].duration = 0
  /\ \A k \in DOMAIN active_events : active_events[k].onset # Seconds(3, 0)

\* the rows of the file last read that the filename last asked for selects
MarkerRows ==
  {i \in DOMAIN events_file :
     /\ events_file[i].trial_type = "gym-retro_game"
     /\ Contains(events_file[i].stim_file, bk2_filename)}
FirstMarker == CHOOSE i \in MarkerRows : \A j \in MarkerRows : i <= j
\* the next start-marker row after the replay's, or one past the last row
NextMarker ==
  LET later == {i \in DOMAIN events_file :
                  i > FirstMarker /\ events_file[i].trial_type = "gym-retro_game"}
  IN IF later = {} THEN Len(events_file) + 1
     ELSE CHOOSE i \in later : \A j \in later : i <= j
\* row k of a result is row i of the file, re-homed to the replay's onset
Rehomed(row, i) ==
  /\ row.trial_type = events_file[i].trial_type
  /\ row.duration = events_file[i].duration
  /\ row.onset = events_file[i].onset - events_file[FirstMarker].onset

\* C20 as stated: load_annotated_events returns exactly the rows that follow
\* the replay's start-marker row, up to but not including the next
\* start-marker row, each with its onset minus the replay's onset; and an
\* empty result if no marker row matches.
C20_RowsAfterMarker ==
  eop = "load_events" =>
    IF MarkerRows = {} THEN returned_events = <<>>
    ELSE /\ Len(returned_events) = NextMarker - FirstMarker - 1
         /\ \A k \in DOMAIN returned_events :
              Rehomed(returned_events[k], FirstMarker + k)

\* C20 amended: load_annotated_events returns the start-marker row itself
\* (the first gym-retro_game row whose stim_file contains the filename, at
\* onset 0) followed by the rows up to but not including the next
\* start-marker row, each with its onset minus the replay's onset; the rows
\* EventsWidget.load_events keeps are exactly the rows that follow the
\* marker; if no marker row matches, both are empty.
C20_MarkerAndRowsAfter ==
  eop = "load_events" =>
    IF MarkerRows = {} THEN returned_events = <<>> /\ events_df = <<>>
    ELSE /\ Len(returned_events) = NextMarker - FirstMarker
         /\ \A k \in DOMAIN returned_events :
              Rehomed(returned_events[k], FirstMarker + k - 1)
         /\ returned_events[1].trial_type = "gym-retro_game"
         /\ returned_events[1].onset = 0
         /\ Len(events_df) = NextMarker - FirstMarker - 1
         /\ \A k \in DOMAIN events_df : Rehomed(events_df[k], FirstMarker + k)

\* C20 witness: the marker of the replay is followed by two events and
\* another marker; three rows are returned, two are kept by the widget.
C20_Witness ==
  /\ eop = "load_events"
  /\ MarkerRows # {}
  /\ NextMarker <= Len(events_file)
  /\ Len(returned_events) = 3
  /\ Len(events_df) = 2
  /\ events_df[1].onset > 0

\* C20 witness: no marker row matches the filename of a non-empty file.
C20_WitnessNoMatch ==
  /\ eop = "load_events"
  /\ events_file # <<>>
  /\ MarkerRows = {}
  /\ returned_events = <<>>

\* ------------------------------------------------- C23: scheduler drains
\* C23: for every load, whatever the size of the range (an empty one
\* included) and whichever tasks fail, the scheduler comes back to Idle: when
\* the poll timer of a loaded recording has stopped, the pending set is
\* empty, is_precomputing is false, the executor is released, and every index
\* of the range whose task did not fail is in the cache.
C23_DrainsToIdle ==
  (Loaded /\ ~poll_timer) =>
    /\ DOMAIN futures = {}
    /\ ~is_precomputing
    /\ executor = "None"
    /\ \A i \in Range \ failed : i \in DOMAIN brain_cache

\* ------------------------------------------------ C24: single-writer cache
\* C24: only the poll step adds entries to brain_cache and only
\* load_timeseries and clear empty it; update_position leaves the cache, the
\* pending futures and the executor unchanged; an index present in the cache
\* keeps its artifact until the next load or clear; and a lookup that misses
\* leaves last_displayed_brain unchanged.
C24_SingleWriter ==
  [][/\ brain_cache' # brain_cache =>
          op' \in {"_poll_futures", "load_timeseries", "clear"}
     /\ op' \in {"load_timeseries", "clear"} => brain_cache' = EmptyMap
     /\ op' \notin {"load_timeseries", "clear"} =>
          \A i \in DOMAIN brain_cache :
            i \in DOMAIN brain_cache' /\ brain_cache'[i] = brain_cache[i]
     /\ op' = "update_position" =>
          /\ UNCHANGED <<brain_cache, futures, executor>>
          /\ (~Loaded \/ CacheReads(ReadState, frame_idx') = {}) =>
               last_displayed_brain' = last_displayed_brain]_allVars

\* C24 witness: a lookup missed while the cache held entries and an earlier
\* hit had left a last displayed artifact.
C24_Witness ==
  /\ op = "update_position"
  /\ Loaded
  /\ DOMAIN brain_cache # {}
  /\ CurrentTr(TimeInRun(frame_idx, onset_time)) \notin DOMAIN brain_cache
  /\ last_displayed_brain # NoneImg

\* ------------------------------------------- C25: range covers playback
\* the frames of the replay whose duration load_timeseries was given:
\* replay_duration = frame_count / fps, so frame_count = replay_duration * fps
PlaybackFrames == 0 .. (replay_duration \div TicksPerFrame - 1)

\* the indices update_position tests against the cache for frame f: the
\* floor index when it is inside the timeseries, and the next index when the
\* fraction asks for a blend and it is inside the timeseries
CacheLookups(f) ==
  LET t == TimeInRun(f, onset_time)
      c == CurrentTr(t)
  IN IF c >= timeseries_data.len THEN {}
     ELSE {c} \cup (IF c + 1 < timeseries_data.len THEN {c + 1} ELSE {})

\* C25: with onset_time >= 0 and replay_duration = frame_count / fps, for
\* every frame f in [0, frame_count) the volume index update_position looks
\* up and the next index, whenever it is below the number of volumes, lie in
\* [start_tr, end_tr): no lookup during playback targets an index for which
\* no task was submitted.
C25_RangeCoversPlayback ==
  (Loaded /\ op = "load_timeseries" /\ replay_duration # NoDuration /\ onset_time >= 0) =>
    \A f \in PlaybackFrames :
      /\ CacheLookups(f) \subseteq Range
      /\ CacheLookups(f) \subseteq {submitted[k] : k \in DOMAIN submitted}

\* C25 witness: the replay of 90 frames at onset 10.0 s is loaded; its last
\* frame looks up volume 7 and the next index 8, both submitted.
C25_Witness ==
  /\ Loaded
  /\ op = "load_timeseries"
  /\ replay_duration = 90 * TicksPerFrame
  /\ CacheLookups(89) = {7, 8}
  /\ start_tr = 6 /\ end_tr = 9

\* C25 as stated, without the bounds check of update_position: the floor
\* index of every frame of the replay lies in [start_tr, end_tr). A replay
\* whose onset lies past the last volume refutes it: its floor indices are
\* >= total_volumes, update_position returns before any lookup, and the
\* range is empty.
C25_FloorAlwaysInRange ==
  (Loaded /\ op = "load_timeseries" /\ replay_duration # NoDuration /\ onset_time >= 0) =>
    \A f \in PlaybackFrames : CurrentTr(TimeInRun(f, onset_time)) \in Range

\* --------------------------------- C26: no fallback across recordings
\* the recordings an image was computed or blended from
GensOf(img) == {p[1] : p \in img.src}

\* C26: the last-displayed fallback never crosses recordings. After
\* load_timeseries (also after clear followed by a load) what update_position
\* displays and what it keeps as last displayed were computed or blended
\* only from volumes of the recording loaded last; and as long as the new
\* recording had no cache hit, update_position displays no image: it says
\* "Computing TR n..." for an index inside the timeseries.
C26_NoStaleFallback ==
  /\ GensOf(display.img) \subseteq {loads}
  /\ Loaded => GensOf(last_displayed_brain) \subseteq {loads}
  /\ (op = "update_position" /\ Loaded /\ last_displayed_brain = NoneImg) =>
       /\ display.kind # "pixmap"
       /\ CurrentTr(TimeInRun(frame_idx, onset_time)) < timeseries_data.len =>
            display = Text("computing", CurrentTr(TimeInRun(frame_idx, onset_time)))

\* C26 witness: a second recording is loaded and a lookup before its first
\* cache hit says "Computing TR n...".
C26_Witness ==
  /\ loads = 2
  /\ Loaded
  /\ op = "update_position"
  /\ display.kind = "computing"
  /\ last_displayed_brain = NoneImg
  /\ current_tr >= 0

\* ----------------------------------------- C27: heavy widgets' lag bound
\* C27: after every on_frame_changed(frame_idx), whatever sequence of
\* playback advances and seeks led to it, the frame differs from
\* _last_heavy_update_frame by at most 2 (less than _heavy_update_interval),
\* the heavy widgets were last updated at _last_heavy_update_frame, and the
\* light widgets (timeseries, events) were updated to frame_idx by the call.
C27_HeavyLagBounded ==
  /\ light_frame >= 0 =>
       Abs(light_frame - _last_heavy_update_frame) <= _heavy_update_interval - 1
  /\ heavy_frame = _last_heavy_update_frame
  /\ emitted =>
       /\ light_frame = current_frame_idx
       /\ Abs(current_frame_idx - _last_heavy_update_frame) <= 2

\* C27 witness: a timer callback during playback emitted a frame two frames
\* past the last heavy update, and the light widgets follow it.
C27_Witness ==
  /\ pop = "advance_frame"
  /\ emitted
  /\ light_frame = current_frame_idx
  /\ current_frame_idx = _last_heavy_update_frame + 2
  /\ _last_heavy_update_frame >= 3

\* ------------------------------------------ C28: playback terminates
\* Playback left alone: the timer fires while playing; the user acts only
\* while the player is paused (loads a replay, seeks, steps, presses play).
NextPlayback ==
  \/ \E d \in TimerDelays : advance_frame(d)
  \/ ~is_playing /\ \E r \in PlayerReplays, out \in {NoRom, Complete} \cup RaiseAfter :
                      on_replay_selected(r, out)
  \/ ~is_playing /\ toggle_playback
  \/ ~is_playing /\ step_forward
  \/ ~is_playing /\ step_backward
  \/ ~is_playing /\ reset_playback
  \/ ~is_playing /\ \E value \in 0 .. slider_max : on_slider_changed(value)
  \/ ~is_playing /\ \E ms \in SeekTimes : seek_to_time(ms)

\* the QTimer started by play() keeps firing while it is active
SpecPlayback ==
  Init /\ [][NextPlayback]_allVars /\ WF_allVars(\E d \in TimerDelays : advance_frame(d))

\* C28: after play() on a recording with at least one frame and no further
\* user input, with the timer firing and the elapsed time increasing, the
\* player eventually displays frame frame_count - 1, stops the timer, sets
\* is_playing false and emits playback_finished, once: the callback that
\* emits it is the one that stops the timer, and no callback runs after it;
\* and 0 <= current_frame_idx <= frame_count - 1 at every moment.
C28_PlaybackTerminates ==
  /\ is_playing ~> (/\ ~is_playing
                    /\ playback_finished
                    /\ pop = "advance_frame"
                    /\ current_frame_idx = Len(frames) - 1)
  /\ [](Len(frames) >= 1 => (0 <= current_frame_idx /\ current_frame_idx <= Len(frames) - 1))
  /\ [](is_playing => Len(frames) >= 1)
  /\ [][/\ pop' = "advance_frame" => (playback_finished' <=> ~is_playing')
        /\ pop' # "advance_frame" => ~playback_finished'
        /\ (pop' = "advance_frame" /\ is_playing') => elapsed_ms' > elapsed_ms]_allVars

\* C28 witness: playback started at frame 0 of the replay of 8 frames ran to
\* frame 7, stopped the timer and emitted playback_finished.
C28_Witness ==
  /\ pop = "advance_frame"
  /\ playback_finished
  /\ ~is_playing
  /\ _playback_start_frame = 0
  /\ Len(frames) = 8
  /\ current_frame_idx = 7

\* -------------------------------------- C29: seek during playback
\* the user seeks the claim lists
PlaybackSeeks == {"on_slider_changed", "seek_to_time", "step_forward", "step_backward"}

\* C29 as claimed: a seek to frame s made while playing re-anchors playback
\* at s. The timer callback that follows a seek which displayed frame s
\* (slider change, seek_to_time, step forward, step backward) shows a frame
\* of the timeline that restarts at s: s + floor(fps * t), clamped to the
\* last frame, for a time t since the seek of at most the timer delay d (one
\* more frame is allowed for the fraction of a frame already played).
C29_SeekReanchors ==
  [][(pop \in PlaybackSeeks /\ emitted /\ is_playing /\ pop' = "advance_frame") =>
       \E d \in TimerDelays :
         /\ is_playing' => d = elapsed_ms' - elapsed_ms
         /\ current_frame_idx' >= current_frame_idx
         /\ current_frame_idx' <= Min(current_frame_idx + (d * fps) \div 1000 + 1,
                                      Len(frames) - 1)]_allVars

\* ------------------------------- C30: active events and their recording
\* the events of the replay load_events was last called for: none when the
\* replay has no events in the file or the load failed
EventsOfLoadedReplay ==
  IF returned_events = <<>> THEN <<>> ELSE WithoutGameRows(returned_events)

\* C30 as claimed: after load_events for a replay, following any subsequent
\* update_position, active_events contains only events of that replay; after
\* loading a replay with no events, or a failed load, the list is empty even
\* if events of the previous replay were active.
C30_ActiveEventsOfReplay ==
  eop = "update_position" =>
    /\ \A k \in DOMAIN active_events :
         \E j \in DOMAIN EventsOfLoadedReplay :
           active_events[k] = ActiveEvent(EventsOfLoadedReplay[j], eframe * TicksPerFrame)
    /\ EventsOfLoadedReplay = <<>> => active_events = <<>>

\* ================================================================ browser
\* FileBrowser.load_replays with get_replays_from_events_files (utils.py),
\* and the producer replay_bk2 (replay.py) run for the replay selected.
\* A bk2 file is named by a number; NaN is the missing stim_file of a row.
Bk2Names == 1 .. 3
NaN == 0
NoEventsFile == 0
GameRow(stim) == [trial_type |-> "gym-retro_game", stim_file |-> stim]
OtherRow == [trial_type |-> "hit", stim_file |-> NaN]

\* events tables of runs: two repetitions in a run; one repetition after
\* other events; a run whose first start marker has no stim_file
RunA == <<GameRow(1), OtherRow, GameRow(2)>>
RunB == <<OtherRow, GameRow(3)>>
RunC == <<GameRow(NaN), GameRow(3)>>

\* a dataset: the events tables rglob finds, in order; the tables
\* pd.read_csv fails on; the stim_file paths that exist under the dataset
\* root; the bk2 files rglob finds (every existing stim_file path is one)
Datasets ==
  {d \in [tables : {<<RunA, RunB>>, <<RunA, RunC>>, <<>>},
           unreadable : {{}, {1}},
           resolves : SUBSET Bk2Names,
           bk2_files : SUBSET Bk2Names] : d.resolves \subseteq d.bk2_files}

\* game_rows = df[df['trial_type'] == 'gym-retro_game']
IsGameRow(row) == row.trial_type = "gym-retro_game"
GameRows(df) == SelectSeq(df, IsGameRow)

\* info['skip_first_step'] = (idx == 0), idx counted from 0 by enumerate
IsFirstInRun_second(idx) == idx = 1
IsFirstInRun(idx) == idx = 0

\* the loop over enumerate(game_rows.iterrows()) of events file k, from the
\* row of position i (counted from 1) on
RECURSIVE ReplaysOfRows(_, _, _, _)
ReplaysOfRows(d, k, rows, i) ==
  IF i > Len(rows) THEN <<>>
  ELSE LET stim_file == rows[i].stim_file
           rest == ReplaysOfRows(d, k, rows, i + 1)
       IN IF stim_file = NaN THEN rest
          ELSE IF stim_file \notin d.resolves THEN rest
          ELSE <<[filename |-> stim_file, skip_first_step |-> IsFirstInRun(i - 1),
                  events_file |-> k]>> \o rest

\* get_replays_from_events_files: the loop over the events files, from file
\* k on; a file that cannot be read is skipped
RECURSIVE get_replays_from_events_files(_, _)
get_replays_from_events_files(d, k) ==
  IF k > Len(d.tables) THEN <<>>
  ELSE (IF k \in d.unreadable THEN <<>>
        ELSE ReplaysOfRows(d, k, GameRows(d.tables[k]), 1))
       \o get_replays_from_events_files(d, k + 1)

\* the fallback of load_replays: every bk2 file rglob finds, flag False
RECURSIVE Globbed(_)
Globbed(g) ==
  IF g = {} THEN <<>>
  ELSE LET n == CHOOSE x \in g : \A y \in g : x <= y
       IN <<[filename |-> n, skip_first_step |-> FALSE, events_file |-> NoEventsFile]>>
          \o Globbed(g \ {n})

\* self.replays.sort(key=...): a stable sort by the entities of the filename
RECURSIVE InsertSorted(_, _)
InsertSorted(seq, x) ==
  IF seq = <<>> THEN <<x>>
  ELSE IF x.filename < Head(seq).filename THEN <<x>> \o seq
  ELSE <<Head(seq)>> \o InsertSorted(Tail(seq), x)
RECURSIVE SortReplays(_)
SortReplays(seq) ==
  IF seq = <<>> THEN <<>>
  ELSE InsertSorted(SortReplays(SubSeq(seq, 1, Len(seq) - 1)), seq[Len(seq)])

LoadReplays(d) ==
  LET fromEvents == get_replays_from_events_files(d, 1)
  IN SortReplays(IF fromEvents # <<>> THEN fromEvents ELSE Globbed(d.bk2_files))

\* FileBrowser.load_replays on dataset d
load_replays(d) ==
  /\ replays' = LoadReplays(d)
  /\ dataset' = d
  /\ selected' = 0
  /\ n_frames' = 0 - 1
  /\ movie_steps' = 0 - 1
  /\ bop' = "load_replays"
  /\ UNCHANGED notBrowser

\* the producer replay_bk2 run to exhaustion for replay i of the browser,
\* whose movie is m, with skip_first_step taken from the replay's info
replay_bk2(i, m) ==
  /\ i \in DOMAIN replays
  /\ selected' = i
  /\ n_frames' = Len(Yielded([steps |-> StepsOf(m), skip |-> replays[i].skip_first_step]))
  /\ movie_steps' = Len(m)
  /\ bop' = "replay_bk2"
  /\ UNCHANGED <<replays, dataset>>
  /\ UNCHANGED notBrowser

NextBrowser ==
  \/ \E d \in Datasets : load_replays(d)
  \/ \E i \in 1 .. 3, m \in Movies : replay_bk2(i, m)

SpecBrowser == Init /\ [][NextBrowser]_allVars

\* ---------------------------------------------------------------- claims
\* bk2 file name is the stim_file of the first gym-retro_game row of an
\* events table of dataset d
IsFirstMarker(d, name) ==
  \E k \in DOMAIN d.tables :
    GameRows(d.tables[k]) # <<>> /\ GameRows(d.tables[k])[1].stim_file = name

\* the frames the claim gives a movie of at least one step
ClaimedFrames(skip, steps) == IF skip THEN steps - 1 ELSE steps

\* C22 as claimed: for every replay the browser offers, skip_first_step is
\* true iff its start marker is the first gym-retro_game row of its run's
\* events table; with the flag the producer consumes one movie step without
\* yielding (frame count = step count - 1), without it every step yields a
\* frame.
C22_SkipIffFirstInRun ==
  /\ \A i \in DOMAIN replays :
       replays[i].skip_first_step <=> IsFirstMarker(dataset, replays[i].filename)
  /\ (bop = "replay_bk2" /\ movie_steps >= 1) =>
       n_frames = ClaimedFrames(replays[selected].skip_first_step, movie_steps)

\* C22 as amended: for every replay the browser took from an events file,
\* skip_first_step is true iff its start marker is the first gym-retro_game
\* row of that file (a first row without stim_file counts as a row); when no
\* events file gave a replay the browser offers every bk2 file it finds with
\* skip_first_step false, first in its run or not; the list is sorted; and
\* for a movie of at least one step the producer yields steps - 1 frames with
\* the flag and steps frames without it.
C22_SkipIffFirstOfEventsFile ==
  /\ \A i \in DOMAIN replays :
       IF replays[i].events_file = NoEventsFile
       THEN /\ ~replays[i].skip_first_step
            /\ get_replays_from_events_files(dataset, 1) = <<>>
            /\ replays[i].filename \in dataset.bk2_files
       ELSE /\ replays[i].events_file \in DOMAIN dataset.tables
            /\ replays[i].skip_first_step <=>
                 GameRows(dataset.tables[replays[i].events_file])[1].stim_file
                   = replays[i].filename
            /\ replays[i].filename \in dataset.resolves
  /\ \A i \in DOMAIN replays, j \in DOMAIN replays :
       i < j => replays[i].filename <= replays[j].filename
  /\ (bop = "replay_bk2" /\ movie_steps >= 1) =>
       n_frames = ClaimedFrames(replays[selected].skip_first_step, movie_steps)
  /\ (bop = "replay_bk2" /\ movie_steps = 0) => n_frames = 0

\* C22 witness: the first repetition of a run, taken from its events file
\* next to the second repetition, was decoded: 3 steps gave 2 frames.
C22_Witness ==
  /\ bop = "replay_bk2"
  /\ replays[selected].skip_first_step
  /\ replays[selected].events_file # NoEventsFile
  /\ movie_steps = 3
  /\ n_frames = 2
  /\ \E j \in DOMAIN replays :
       /\ ~replays[j].skip_first_step
       /\ replays[j].events_file = replays[selected].events_file

\* C22 witness: no stim_file path of the events files exists under the
\* dataset root, the browser fell back to the bk2 files it found, and the
\* first repetition of a run was decoded with the flag false: 3 steps, 3 frames.
C22_WitnessFallback ==
  /\ bop = "replay_bk2"
  /\ replays[selected].events_file = NoEventsFile
  /\ IsFirstMarker(dataset, replays[selected].filename)
  /\ ~replays[selected].skip_first_step
  /\ movie_steps = 3
  /\ n_frames = 3

\* ================================================================= physio
\* PhysioWidget: the sliding window of the physio signals, one plotted
\* channel, every event of a type the widget marks on that channel.
sampling_rate == 1000
window_duration == 5 * TicksPerSecond
TicksPerSample == TicksPerSecond \div sampling_rate

\* physio recordings offered to load_physio: number of samples, event onsets
\* (NoPhysioEvents when there is no events file) and onset of the replay in
\* the run, in ticks
PhysioRecordings ==
  { [len |-> 12000, events |-> <<Seconds(1, 0), Seconds(5, 0), Seconds(6, 0)>>,
     onset |-> 0],
    [len |-> 8000, events |-> <<Seconds(2, 0), Seconds(9, 0)>>, onset |-> Seconds(4, 0)],
    [len |-> 12000, events |-> NoPhysioEvents, onset |-> Seconds(4, 0)] }
PhysioFrames == {0, 60, 130, 360, 600}

\* int(time * self.sampling_rate)
SampleAt(t) == IntTrunc(t, TicksPerSample)

\* the fields the physio methods read and write
PhysioState ==
  [data |-> physio_data, events |-> events_data, onset |-> physio_onset_time,
   show |-> show_events, frame |-> current_frame, curve |-> curve,
   scatter |-> event_scatter]

\* _update_events(current_time): the markers are removed, then one marker
\* per event with window_start <= onset <= window_end, at onset - window_start
VisibleEvents(events, window_start, window_end) ==
  {i \in DOMAIN events : events[i] >= window_start /\ events[i] <= window_end}

UpdateEvents(s, current_time) ==
  IF s.events = NoPhysioEvents THEN [s EXCEPT !.scatter = {}]
  ELSE LET window_start == current_time - window_duration
           window_end == current_time
       IN [s EXCEPT !.scatter =
             {[onset |-> s.events[i], x |-> s.events[i] - window_start] :
                i \in VisibleEvents(s.events, window_start, window_end)}]

\* update_position(frame_idx)
PhysioUpdatePosition(s, f) ==
  IF s.data = NoPhysio THEN s
  ELSE LET time_in_run == f * TicksPerFrame + s.onset
           start_sample == Max(0, SampleAt(time_in_run - window_duration))
           end_sample == Min(s.data, SampleAt(time_in_run))
           s1 == [s EXCEPT !.frame = f]
       IN IF start_sample >= end_sample THEN s1
          ELSE LET s2 == [s1 EXCEPT !.curve = [start |-> start_sample,
                                               end |-> end_sample]]
               IN IF s2.show /\ s2.events # NoPhysioEvents
                  THEN UpdateEvents(s2, time_in_run)
                  ELSE s2

PhysioBecomes(s, name) ==
  /\ physio_data' = s.data
  /\ events_data' = s.events
  /\ physio_onset_time' = s.onset
  /\ show_events' = s.show
  /\ current_frame' = s.frame
  /\ curve' = s.curve
  /\ event_scatter' = s.scatter
  /\ phop' = name
  /\ UNCHANGED notPhysio

\* load_physio: the files are read, the parameters stored, _setup_plots makes
\* new empty plots and update_position(0) draws; ok = FALSE when reading
\* raises, the except branch drops the data and leaves the plots
load_physio(r, ok) ==
  /\ r \in PhysioRecordings
  /\ PhysioBecomes(
       IF ok
       THEN PhysioUpdatePosition(
              [PhysioState EXCEPT !.data = r.len, !.events = r.events, !.onset = r.onset,
                                  !.curve = NoCurve, !.scatter = {}], 0)
       ELSE [PhysioState EXCEPT !.data = NoPhysio, !.events = NoPhysioEvents],
       IF ok THEN "load_physio" ELSE "load_failed")

physio_update_position(f) ==
  /\ physio_data # NoPhysio
  /\ PhysioBecomes(PhysioUpdatePosition(PhysioState, f), "update_position")

\* the events checkbox
on_events_toggle ==
  /\ show_events \in BOOLEAN
  /\ PhysioBecomes(PhysioUpdatePosition([PhysioState EXCEPT !.show = ~show_events],
                                        current_frame),
                   "on_events_toggle")

\* PhysioWidget.clear: the data is dropped and the plots removed
physio_clear ==
  /\ physio_data # NoPhysio
  /\ PhysioBecomes([PhysioState EXCEPT !.data = NoPhysio, !.events = NoPhysioEvents,
                                       !.curve = NoCurve, !.scatter = {}],
                   "clear")

NextPhysio ==
  \/ \E r \in PhysioRecordings, ok \in BOOLEAN : load_physio(r, ok)
  \/ \E f \in PhysioFrames : physio_update_position(f)
  \/ on_events_toggle
  \/ physio_clear

SpecPhysio == Init /\ [][NextPhysio]_allVars

\* ---------------------------------------------------------------- claims
\* run time of the frame the display was last moved to, and the window
\* [t - w, t] the claim gives it
PhysioTime == current_frame * TicksPerFrame + physio_onset_time
ClaimedStart == Max(0, (PhysioTime - window_duration) \div TicksPerSample)
ClaimedEnd == Min(physio_data, PhysioTime \div TicksPerSample)
SameSlice(a, b, c, d) == (a >= b /\ c >= d) \/ (a = c /\ b = d)

\* C21 as claimed: when the physio display is at run time t with window
\* width w, the events shown are exactly those with onset in [t - w, t], each
\* at the window-relative coordinate onset - (t - w), which lies in [0, w];
\* and the samples drawn are exactly those with index in
\* [max(0, floor((t - w) * rate)), min(n_samples, floor(t * rate))).
C21_SlidingWindow ==
  (physio_data # NoPhysio /\ phop \in {"update_position", "load_physio"}) =>
    /\ SameSlice(curve.start, curve.end, ClaimedStart, ClaimedEnd)
    /\ (show_events /\ events_data # NoPhysioEvents) =>
         /\ event_scatter =
              {[onset |-> events_data[i], x |-> events_data[i] - (PhysioTime - window_duration)] :
                 i \in {j \in DOMAIN events_data :
                          /\ events_data[j] >= PhysioTime - window_duration
                          /\ events_data[j] <= PhysioTime}}
         /\ \A m \in event_scatter : 0 <= m.x /\ m.x <= window_duration

====
